---------------------------- MODULE Spec2Model ----------------------------
(***************************************************************************)
(* A model of the university community blog (Flask + Flask-SQLAlchemy on   *)
(* SQLite): the request handlers of app/routes.py acting on the tables of  *)
(* app/models.py.                                                          *)
(*                                                                         *)
(* The state is the committed content of the database, the session cookie  *)
(* of each client, and, for a request that commits more than once, the     *)
(* position of the handler and its local variables.  Text is a sequence of *)
(* one-character strings, so that strip() and split(',') are computed.     *)
(***************************************************************************)
EXTENDS Integers, Sequences, FiniteSets, TLC

\* Bounds of the model.
MaxUsers == 2
MaxPosts == 2
MaxComments == 1
MaxClock == 3
MaxRelated == 5

\* Python's None, and the absence of a row id.
None == 0

\* The browsers (cookie jars) that send requests; Flask serves them threaded.
Clients == {"c1", "c2"}

VARIABLES
    users,            \* table user: id -> [username, email, password_hash]
    session,          \* per client: session['user_id'], or None
    posts,            \* table post: id -> [title, content, thumbnail, date_posted,
                      \*                    author_id, upvotes]
    tags,             \* table tag: id -> name
    post_tags,        \* table post_tags: set of <<post_id, tag_id>>
    post_upvotes,     \* table post_upvotes: set of <<user_id, post_id>>
    bookmark,         \* table bookmark: set of <<user_id, post_id>>
    followers_assoc,  \* table followers_assoc: set of <<follower_id, followed_id>>
    comments,         \* table comment: id -> [user_id, post_id, body]
    notifications,    \* table notification: set of [user_id, sender_id, post_id, action]
    pc,               \* per client: where its upvote_post or new_post request stands
    req,              \* per client: the local variables of that request
    resp,             \* the response of the request that completed last
    hist,             \* the last calls of upvote_post that ran one after the other
    deleted           \* the ids of the posts delete_post has deleted so far

vars == <<users, session, posts, tags, post_tags, post_upvotes, bookmark,
          followers_assoc, comments, notifications, pc, req, resp, hist,
          deleted>>

dbvars == <<users, posts, tags, post_tags, post_upvotes, bookmark,
            followers_assoc, comments, notifications>>

-----------------------------------------------------------------------------
(* Text helpers: str.strip() and str.split(',').                           *)

RECURSIVE LStrip(_)
LStrip(s) == IF s # <<>> /\ Head(s) = " " THEN LStrip(Tail(s)) ELSE s

RECURSIVE RStrip(_)
RStrip(s) ==
    IF s # <<>> /\ s[Len(s)] = " " THEN RStrip(SubSeq(s, 1, Len(s) - 1)) ELSE s

\* A strip() that removes nothing.
StripNothing(s) == s

Strip(s) == RStrip(LStrip(s))

RECURSIVE SplitFrom(_, _)
SplitFrom(s, cur) ==
    IF s = <<>> THEN <<cur>>
    ELSE IF Head(s) = "," THEN <<cur>> \o SplitFrom(Tail(s), <<>>)
    ELSE SplitFrom(Tail(s), Append(cur, Head(s)))

SplitComma(s) == SplitFrom(s, <<>>)

RECURSIVE StripNonEmpty(_)
StripNonEmpty(parts) ==
    IF parts = <<>> THEN <<>>
    ELSE IF Strip(Head(parts)) # <<>>
         THEN <<Strip(Head(parts))>> \o StripNonEmpty(Tail(parts))
         ELSE StripNonEmpty(Tail(parts))

\* routes.py:129  [t.strip() for t in tags_raw.split(',') if t.strip()]
ParseTagNames(tags_raw) == StripNonEmpty(SplitComma(tags_raw))

-----------------------------------------------------------------------------
(* Storage helpers.                                                        *)

SetMax(S) == CHOOSE x \in S : \A y \in S : y <= x

\* An INTEGER PRIMARY KEY without AUTOINCREMENT: SQLite gives a new row the
\* largest id in the table plus one, so the id of a deleted last row is reused.
NextId(table) == IF DOMAIN table = {} THEN 1 ELSE SetMax(DOMAIN table) + 1

Insert(table, row) == table @@ (NextId(table) :> row)

Remove(table, id) == [i \in DOMAIN table \ {id} |-> table[i]]

\* werkzeug's salted one-way hash: only check_password_hash relates the two.
generate_password_hash(password) == <<"pbkdf2", password>>

check_password_hash(pwhash, password) == pwhash = <<"pbkdf2", password>>

UserByUsername(username) == {u \in DOMAIN users : users[u].username = username}

\* A lookup of an email address that never finds a user.
UserNeverFound(email) == {}

UserByEmail(email) == {u \in DOMAIN users : users[u].email = email}

\* User.query.get(session.get('user_id')) if session.get('user_id') else None
current_user(c) == IF session[c] \in DOMAIN users THEN session[c] ELSE None

-----------------------------------------------------------------------------
(* Read operations of the models.                                          *)

\* A count of the rows a user is the follower of, taken for its followers.
followers_count_swapped(v) == Cardinality({e \in followers_assoc : e[1] = v})

\* models.py:71  User.followers_count
followers_count(v) == Cardinality({e \in followers_assoc : e[2] = v})

\* models.py:74  User.following_count
following_count(v) == Cardinality({e \in followers_assoc : e[1] = v})

\* models.py:82  User.is_following
is_following(a, b) ==
    IF b = None THEN FALSE
    ELSE Cardinality({e \in followers_assoc : e[1] = a /\ e[2] = b}) > 0

\* models.py:77  User.is_followed_by
is_followed_by(a, b) ==
    IF b = None THEN FALSE
    ELSE Cardinality({e \in followers_assoc : e[1] = b /\ e[2] = a}) > 0

\* models.py:87  User.has_bookmarked
has_bookmarked(u, p) == IF p = None THEN FALSE ELSE <<u, p>> \in bookmark

\* models.py:92  User.has_liked
has_liked(u, p) ==
    IF p = None THEN FALSE
    ELSE Cardinality({e \in post_upvotes : e[1] = u /\ e[2] = p}) > 0

\* routes.py:248  post.liked_by.count()
liked_by_count(p) == Cardinality({e \in post_upvotes : e[2] = p})

-----------------------------------------------------------------------------
(* Responses and the bookkeeping of requests.                              *)

\* What a handler answers: the outcome, the acting user, the id the request
\* names, and the values the handler read or returns.
Response(op, outcome, user, arg) ==
    [op |-> op, outcome |-> outcome, user |-> user, arg |-> arg,
     count |-> 0, flag |-> FALSE, rows |-> <<>>]

NoRequest ==
    [user |-> None, post |-> None, was_liked |-> FALSE, count |-> 0,
     alone |-> FALSE, pre_liked |-> FALSE, pre_count |-> 0, pre_upvotes |-> 0,
     tag_names |-> <<>>]

\* The rows of post_upvotes that reference post p.
LikeEdges(p) == {e \in post_upvotes : e[2] = p}

\* A request runs alone when no other request is in flight from its first step
\* to its last.  A step of client c ends that for every other request in flight.
Disturb(c) ==
    [d \in Clients |->
        IF d # c /\ pc[d] # "idle" THEN [req[d] EXCEPT !.alone = FALSE]
        ELSE req[d]]

\* The calls recorded so far, if they are c's own; a step of another client
\* comes between them.
HistOf(c) == IF hist # <<>> /\ hist[1].client # c THEN <<>> ELSE hist

Init ==
    /\ users = <<>>
    /\ session = [c \in Clients |-> None]
    /\ posts = <<>>
    /\ tags = <<>>
    /\ post_tags = {}
    /\ post_upvotes = {}
    /\ bookmark = {}
    /\ followers_assoc = {}
    /\ comments = <<>>
    /\ notifications = {}
    /\ pc = [c \in Clients |-> "idle"]
    /\ req = [c \in Clients |-> NoRequest]
    /\ resp = Response("none", "none", None, None)
    /\ hist = <<>>
    /\ deleted = {}

\* What every handler that commits once leaves alone or resets.
Atomic(c, r) ==
    /\ pc[c] = "idle"
    /\ resp' = r
    /\ req' = Disturb(c)
    /\ hist' = <<>>
    /\ UNCHANGED pc

-----------------------------------------------------------------------------
(* Identity: register, login, logout.                                      *)

\* models.py:45-46  unique=True on username and email: the commit of a row for
\* user self (None for a new row) fails when another row has one of the two.
UniqueViolation(username, email, self) ==
    \E u \in DOMAIN users \ {self} :
        users[u].username = username \/ users[u].email = email

\* routes.py:189  register
Register(c, username, email, password) ==
    /\ Cardinality(DOMAIN users) < MaxUsers
    /\ IF UserByUsername(username) # {} \/ UserByEmail(email) # {}
       THEN /\ Atomic(c, Response("register", "conflict", None, None))
            /\ UNCHANGED <<dbvars, session, deleted>>
       ELSE IF UniqueViolation(username, email, None)
       THEN /\ Atomic(c, Response("register", "error", None, None))
            /\ UNCHANGED <<dbvars, session, deleted>>
       ELSE /\ users' = Insert(users, [username |-> username, email |-> email,
                                      password_hash |-> generate_password_hash(password)])
            /\ Atomic(c, Response("register", "ok", None, None))
            /\ UNCHANGED <<posts, tags, post_tags, post_upvotes, bookmark,
                           followers_assoc, comments, notifications, session, deleted>>

\* routes.py:209  login
Login(c, username, password) ==
    LET found == UserByUsername(username) IN
    IF \E u \in found : check_password_hash(users[u].password_hash, password)
    THEN /\ session' = [session EXCEPT ![c] = CHOOSE u \in found : TRUE]
         /\ Atomic(c, Response("login", "ok", None, None))
         /\ UNCHANGED <<dbvars, deleted>>
    ELSE /\ Atomic(c, Response("login", "invalid_credentials", None, None))
         /\ UNCHANGED <<dbvars, session, deleted>>

\* routes.py:226  logout
Logout(c) ==
    /\ session' = [session EXCEPT ![c] = None]
    /\ Atomic(c, Response("logout", "ok", session[c], None))
    /\ UNCHANGED <<dbvars, deleted>>

-----------------------------------------------------------------------------
(* Relationship graph: follow, unfollow.                                   *)

\* A follow that does not look for the edge first.
ShouldFollowUnchecked(cu, user_id) == user_id # cu

\* A follow that lets a user follow themselves.
ShouldFollowSelf(cu, user_id) == ~is_following(cu, user_id)

\* routes.py:288  the condition under which follow inserts a row
ShouldFollow(cu, user_id) == user_id # cu /\ ~is_following(cu, user_id)

\* routes.py:281  follow; flag reports whether the edge was there before.  The
\* composite primary key (models.py:36-37) refuses a second row for a pair.
Follow(c, user_id) ==
    IF session[c] = None
    THEN /\ Atomic(c, Response("follow", "unauthenticated", session[c], user_id))
         /\ UNCHANGED <<dbvars, session, deleted>>
    ELSE IF user_id \notin DOMAIN users
    THEN /\ Atomic(c, Response("follow", "not_found", session[c], user_id))
         /\ UNCHANGED <<dbvars, session, deleted>>
    ELSE IF ShouldFollow(current_user(c), user_id)
            /\ <<current_user(c), user_id>> \in followers_assoc
    THEN /\ Atomic(c, Response("follow", "error", session[c], user_id))
         /\ UNCHANGED <<dbvars, session, deleted>>
    ELSE /\ followers_assoc' =
               IF ShouldFollow(current_user(c), user_id)
               THEN followers_assoc \cup {<<current_user(c), user_id>>}
               ELSE followers_assoc
         /\ Atomic(c, [Response("follow", "ok", session[c], user_id)
                          EXCEPT !.flag = is_following(current_user(c), user_id)])
         /\ UNCHANGED <<users, posts, tags, post_tags, post_upvotes, bookmark,
                        comments, notifications, session, deleted>>

\* routes.py:301  the row unfollow looks up
FollowRow(cu, user_id) == {e \in followers_assoc : e[1] = cu /\ e[2] = user_id}

\* routes.py:294  unfollow; flag reports whether the edge was there before
Unfollow(c, user_id) ==
    IF session[c] = None
    THEN /\ Atomic(c, Response("unfollow", "unauthenticated", session[c], user_id))
         /\ UNCHANGED <<dbvars, session, deleted>>
    ELSE IF user_id \notin DOMAIN users
    THEN /\ Atomic(c, Response("unfollow", "not_found", session[c], user_id))
         /\ UNCHANGED <<dbvars, session, deleted>>
    ELSE /\ followers_assoc' = followers_assoc \ FollowRow(current_user(c), user_id)
         /\ Atomic(c, [Response("unfollow", "ok", session[c], user_id)
                          EXCEPT !.flag = FollowRow(current_user(c), user_id) # {}])
         /\ UNCHANGED <<users, posts, tags, post_tags, post_upvotes, bookmark,
                        comments, notifications, session, deleted>>

-----------------------------------------------------------------------------
(* Content store: new_post, post_detail (comment), delete_post.            *)

\* routes.py:20  ALLOWED_EXTENSIONS
ALLOWED_EXTENSIONS == {"png", "jpg", "jpeg", "gif"}

\* str.lower() on the extensions the model uploads.
Lower(ext) == IF ext = "PNG" THEN "png" ELSE ext

\* request.files.get('thumbnail') when nothing is uploaded: the filename is ''
NoFile == [stem |-> "", ext |-> ""]

\* routes.py:22  allowed_file; a file is [stem, ext], ext "" when the name has no dot
allowed_file(file) == file.ext # "" /\ Lower(file.ext) \in ALLOWED_EXTENSIONS

\* A lookup of a tag that never finds one.
TagNeverFound(tbl, name) == {}

\* routes.py:131  Tag.query.filter_by(name=tn).first()
TagIdByName(tbl, name) == {t \in DOMAIN tbl : tbl[t] = name}

\* routes.py:130-134  the Tag rows after the loop over tag_names
RECURSIVE EnsureTags(_, _)
EnsureTags(tbl, names) ==
    IF names = <<>> THEN tbl
    ELSE EnsureTags(IF TagIdByName(tbl, Head(names)) = {}
                    THEN Insert(tbl, Head(names)) ELSE tbl,
                    Tail(names))

\* The latest date_posted in the table.
LatestDate == IF DOMAIN posts = {} THEN 1
              ELSE SetMax({posts[p].date_posted : p \in DOMAIN posts})

\* models.py:144  default=datetime.utcnow: the clock reads what it read for the
\* latest post, or has moved on since.
UtcNow == {LatestDate, IF LatestDate < MaxClock THEN LatestDate + 1 ELSE MaxClock}

\* routes.py:124  the row of the new post
PostRow(c, title, content, file, now) ==
    [title |-> Strip(title), content |-> Strip(content), thumbnail |-> file,
     date_posted |-> now, author_id |-> current_user(c), upvotes |-> 0]

\* routes.py:135-136  the post_tags rows of post id for the tag names
TagRowsFor(id, tbl, names) ==
    {<<id, t>> : t \in {t \in DOMAIN tbl : \E i \in 1..Len(names) : tbl[t] = names[i]}}

\* routes.py:96  new_post (POST), when no other request comes between its commits
NewPost(c, title, content, tags_raw, file) ==
    /\ Cardinality(DOMAIN posts) < MaxPosts
    /\ IF current_user(c) = None
       THEN /\ Atomic(c, Response("new_post", "unauthenticated", current_user(c), None))
            /\ UNCHANGED <<dbvars, session, deleted>>
       ELSE IF Strip(title) = <<>> \/ Strip(content) = <<>>
       THEN /\ Atomic(c, Response("new_post", "validation_error", current_user(c), None))
            /\ UNCHANGED <<dbvars, session, deleted>>
       ELSE IF file # NoFile /\ ~allowed_file(file)
       THEN /\ Atomic(c, Response("new_post", "invalid_file", current_user(c), None))
            /\ UNCHANGED <<dbvars, session, deleted>>
       ELSE LET id == NextId(posts)
                names == ParseTagNames(tags_raw)
                newtags == EnsureTags(tags, names)
            IN  /\ \E now \in UtcNow :
                       posts' = Insert(posts, PostRow(c, title, content, file, now))
                /\ tags' = newtags
                /\ post_tags' = post_tags \cup TagRowsFor(id, newtags, names)
                /\ Atomic(c, Response("new_post", "ok", current_user(c), None))
                /\ UNCHANGED <<users, post_upvotes, bookmark, followers_assoc,
                               comments, notifications, session, deleted>>

\* routes.py:33  get_default_user: the first user, created when there is none
DefaultUserRow ==
    [username |-> "faculty_admin", email |-> "admin@example.edu",
     password_hash |-> generate_password_hash("password")]

UsersWithDefault == IF DOMAIN users = {} THEN Insert(users, DefaultUserRow) ELSE users

get_default_user == CHOOSE u \in DOMAIN UsersWithDefault :
                        \A v \in DOMAIN UsersWithDefault : u <= v

\* routes.py:151  post_detail (POST): add a comment; the response names the user
\* of the session, the comment is stored for get_default_user()
AddComment(c, post_id, body) ==
    /\ Cardinality(DOMAIN comments) < MaxComments
    /\ IF post_id \notin DOMAIN posts
       THEN /\ Atomic(c, Response("comment", "not_found", current_user(c), post_id))
            /\ UNCHANGED <<dbvars, session, deleted>>
       ELSE IF Strip(body) = <<>>
       THEN /\ Atomic(c, Response("comment", "validation_error", current_user(c), post_id))
            /\ UNCHANGED <<dbvars, session, deleted>>
       ELSE /\ users' = UsersWithDefault
            /\ comments' = Insert(comments, [user_id |-> get_default_user,
                                             post_id |-> post_id,
                                             body |-> Strip(body)])
            /\ Atomic(c, Response("comment", "ok", current_user(c), post_id))
            /\ UNCHANGED <<posts, tags, post_tags, post_upvotes, bookmark,
                           followers_assoc, notifications, session, deleted>>

\* models.py:148  Post.comments has no delete cascade: the flush of a deleted post
\* sets post_id of its comments to NULL, which the NOT NULL column (models.py:159)
\* refuses.
DeleteRefused(p) == \E k \in DOMAIN comments : comments[k].post_id = p

\* routes.py:345  db.session.delete(post): the row, and the rows of the secondary
\* tables of its relationships tags, liked_by and bookmarked_users
PostsAfterDelete(p) == Remove(posts, p)

PostTagsAfterDelete(p) == {e \in post_tags : e[1] # p}

UpvotesAfterDelete(p) == {e \in post_upvotes : e[2] # p}

BookmarksAfterDelete(p) == {e \in bookmark : e[2] # p}

\* routes.py:338  delete_post
DeletePost(c, post_id) ==
    IF post_id \notin DOMAIN posts
    THEN /\ Atomic(c, Response("delete_post", "not_found", current_user(c), post_id))
         /\ UNCHANGED <<dbvars, session, deleted>>
    ELSE IF posts[post_id].author_id # current_user(c)
    THEN \* url_for(..., user_id=current_user.id) raises when nobody is logged in
         /\ Atomic(c, Response("delete_post",
                IF current_user(c) = None THEN "error" ELSE "forbidden",
                current_user(c), post_id))
         /\ UNCHANGED <<dbvars, session, deleted>>
    ELSE IF DeleteRefused(post_id)
    THEN /\ Atomic(c, Response("delete_post", "error", current_user(c), post_id))
         /\ UNCHANGED <<dbvars, session, deleted>>
    ELSE /\ posts' = PostsAfterDelete(post_id)
         /\ post_tags' = PostTagsAfterDelete(post_id)
         /\ post_upvotes' = UpvotesAfterDelete(post_id)
         /\ bookmark' = BookmarksAfterDelete(post_id)
         /\ deleted' = deleted \cup {post_id}
         /\ Atomic(c, Response("delete_post", "ok", current_user(c), post_id))
         /\ UNCHANGED <<users, tags, followers_assoc, comments, notifications,
                        session>>

\* routes.py:318-331  the row after the form is applied; title and content are
\* stored as sent
PostEdited(row, title, content, file) ==
    [row EXCEPT !.title = title, !.content = content,
                !.thumbnail = IF file # NoFile THEN file ELSE row.thumbnail]

\* routes.py:307  edit_post (POST)
EditPost(c, post_id, title, content, file) ==
    IF session[c] = None
    THEN /\ Atomic(c, Response("edit_post", "unauthenticated", session[c], post_id))
         /\ UNCHANGED <<dbvars, session, deleted>>
    ELSE IF post_id \notin DOMAIN posts
    THEN /\ Atomic(c, Response("edit_post", "not_found", session[c], post_id))
         /\ UNCHANGED <<dbvars, session, deleted>>
    ELSE IF posts[post_id].author_id # current_user(c)
    THEN /\ Atomic(c, Response("edit_post", "forbidden", session[c], post_id))
         /\ UNCHANGED <<dbvars, session, deleted>>
    ELSE IF file # NoFile /\ ~allowed_file(file)
    THEN \* returns before the commit: the changes of the session are dropped
         /\ Atomic(c, Response("edit_post", "validation_error", session[c], post_id))
         /\ UNCHANGED <<dbvars, session, deleted>>
    ELSE /\ posts' = [posts EXCEPT ![post_id] = PostEdited(@, title, content, file)]
         /\ Atomic(c, Response("edit_post", "ok", session[c], post_id))
         /\ UNCHANGED <<users, tags, post_tags, post_upvotes, bookmark,
                        followers_assoc, comments, notifications, session, deleted>>

\* routes.py:350  settings (POST); the avatar is an uploaded file or nothing
Settings(c, username, email, avatar_file) ==
    IF current_user(c) = None
    THEN \* current_user.username = ... raises on None
         /\ Atomic(c, Response("settings", "error", None, None))
         /\ UNCHANGED <<dbvars, session, deleted>>
    ELSE IF avatar_file.stem # "" /\ ~allowed_file(avatar_file)
    THEN /\ Atomic(c, Response("settings", "invalid_file", current_user(c), None))
         /\ UNCHANGED <<dbvars, session, deleted>>
    ELSE IF UniqueViolation(username, email, current_user(c))
    THEN /\ Atomic(c, Response("settings", "error", current_user(c), None))
         /\ UNCHANGED <<dbvars, session, deleted>>
    ELSE /\ users' = [users EXCEPT ![current_user(c)].username = username,
                                   ![current_user(c)].email = email]
         /\ Atomic(c, Response("settings", "ok", current_user(c), None))
         /\ UNCHANGED <<posts, tags, post_tags, post_upvotes, bookmark,
                        followers_assoc, comments, notifications, session, deleted>>

-----------------------------------------------------------------------------
(* Engagement ledger: toggle_bookmark and upvote_post.                     *)

\* A toggle that only ever bookmarks.
BookmarkAlwaysAdded(edges, u, p) == edges \cup {<<u, p>>}

\* routes.py:265-271  the bookmark rows after user.bookmarks.remove(post) when the
\* post is among the user's bookmarks, after user.bookmarks.append(post) otherwise
BookmarkToggled(edges, u, p) ==
    IF <<u, p>> \in edges THEN edges \ {<<u, p>>} ELSE edges \cup {<<u, p>>}

\* routes.py:256  toggle_bookmark
ToggleBookmark(c, post_id) ==
    IF session[c] = None \/ current_user(c) = None
    THEN /\ Atomic(c, Response("bookmark", "unauthenticated", session[c], post_id))
         /\ UNCHANGED <<dbvars, session, deleted>>
    ELSE IF post_id \notin DOMAIN posts
    THEN /\ Atomic(c, Response("bookmark", "not_found", session[c], post_id))
         /\ UNCHANGED <<dbvars, session, deleted>>
    ELSE LET was == has_bookmarked(current_user(c), post_id) IN
         /\ bookmark' = BookmarkToggled(bookmark, current_user(c), post_id)
         /\ Atomic(c, [Response("bookmark", "ok", session[c], post_id) EXCEPT !.flag = ~was])
         /\ UNCHANGED <<users, posts, tags, post_tags, post_upvotes,
                        followers_assoc, comments, notifications, session, deleted>>

\* The record of a finished call of upvote_post kept in hist.
CallRecord(c, r) ==
    [client |-> c, user |-> req[c].user, post |-> req[c].post,
     outcome |-> r.outcome, liked |-> r.flag, count |-> r.count,
     pre_liked |-> req[c].pre_liked, pre_count |-> req[c].pre_count,
     pre_upvotes |-> req[c].pre_upvotes]

LastTwo(h) == IF Len(h) > 2 THEN SubSeq(h, Len(h) - 1, Len(h)) ELSE h

\* The handler of client c returns r.
Finish(c, r) ==
    /\ resp' = r
    /\ pc' = [pc EXCEPT ![c] = "idle"]
    /\ req' = [Disturb(c) EXCEPT ![c] = NoRequest]
    /\ hist' = IF req[c].alone THEN LastTwo(Append(HistOf(c), CallRecord(c, r)))
               ELSE <<>>

\* The handler of client c moves on to position next with locals r.
Goto(c, next, r) ==
    /\ pc' = [pc EXCEPT ![c] = next]
    /\ req' = [Disturb(c) EXCEPT ![c] = r]
    /\ hist' = HistOf(c)
    /\ UNCHANGED resp

\* routes.py:97-126  new_post up to its first commit, which stores the post
NewPostBegin(c, title, content, tags_raw, file) ==
    /\ pc[c] = "idle"
    /\ Cardinality(DOMAIN posts) < MaxPosts
    /\ IF current_user(c) = None
       THEN /\ Atomic(c, Response("new_post", "unauthenticated", current_user(c), None))
            /\ UNCHANGED <<dbvars, session, deleted>>
       ELSE IF Strip(title) = <<>> \/ Strip(content) = <<>>
       THEN /\ Atomic(c, Response("new_post", "validation_error", current_user(c), None))
            /\ UNCHANGED <<dbvars, session, deleted>>
       ELSE IF file # NoFile /\ ~allowed_file(file)
       THEN /\ Atomic(c, Response("new_post", "invalid_file", current_user(c), None))
            /\ UNCHANGED <<dbvars, session, deleted>>
       ELSE /\ \E now \in UtcNow :
                  posts' = Insert(posts, PostRow(c, title, content, file, now))
            /\ Goto(c, "tags", [NoRequest EXCEPT !.user = current_user(c),
                                                 !.post = NextId(posts),
                                                 !.tag_names = ParseTagNames(tags_raw)])
            /\ UNCHANGED <<users, tags, post_tags, post_upvotes, bookmark,
                           followers_assoc, comments, notifications, session, deleted>>

\* routes.py:128-140  the loop over the tag names and the second commit
NewPostTags(c) ==
    /\ pc[c] = "tags"
    /\ IF req[c].post \notin DOMAIN posts
       THEN /\ Finish(c, Response("new_post", "error", req[c].user, None))
            /\ UNCHANGED <<dbvars, session, deleted>>
       ELSE LET newtags == EnsureTags(tags, req[c].tag_names) IN
            /\ tags' = newtags
            /\ post_tags' = post_tags \cup TagRowsFor(req[c].post, newtags, req[c].tag_names)
            /\ Finish(c, Response("new_post", "ok", req[c].user, None))
            /\ UNCHANGED <<users, posts, post_upvotes, bookmark, followers_assoc,
                           comments, notifications, session, deleted>>

\* routes.py:235-244  the session check, the two loads and has_liked
UpvoteBegin(c, post_id) ==
    /\ pc[c] = "idle"
    /\ IF session[c] = None
       THEN /\ resp' = Response("upvote", "unauthenticated", None, post_id)
            /\ req' = Disturb(c)
            /\ hist' = <<>>
            /\ UNCHANGED <<pc, dbvars, session, deleted>>
       ELSE IF post_id \notin DOMAIN posts
       THEN /\ resp' = Response("upvote", "not_found", session[c], post_id)
            /\ req' = Disturb(c)
            /\ hist' = <<>>
            /\ UNCHANGED <<pc, dbvars, session, deleted>>
       ELSE /\ Goto(c, "commit",
                    [user |-> current_user(c), post |-> post_id,
                     was_liked |-> has_liked(current_user(c), post_id),
                     count |-> 0,
                     alone |-> \A d \in Clients \ {c} : pc[d] = "idle",
                     pre_liked |-> <<current_user(c), post_id>> \in post_upvotes,
                     pre_count |-> Cardinality(LikeEdges(post_id)),
                     pre_upvotes |-> posts[post_id].upvotes,
                     tag_names |-> <<>>])
            /\ UNCHANGED <<dbvars, session, deleted>>

\* A toggle that only ever likes.
EdgeAlwaysAdded(edges, u, p, was_liked) == edges \cup {<<u, p>>}

\* routes.py:242-246  the row of post_upvotes the first commit deletes or inserts
EdgeAfterToggle(edges, u, p, was_liked) ==
    IF was_liked THEN edges \ {<<u, p>>} ELSE edges \cup {<<u, p>>}

\* The flush fails when the row to delete is gone (StaleDataError) or the row to
\* insert is there already (IntegrityError on the primary key, models.py:23-24).
FlushFails(edges, u, p, was_liked) ==
    IF was_liked THEN <<u, p>> \notin edges ELSE <<u, p>> \in edges

\* routes.py:246  the first commit
UpvoteCommit(c) ==
    /\ pc[c] = "commit"
    /\ IF FlushFails(post_upvotes, req[c].user, req[c].post, req[c].was_liked)
       THEN /\ Finish(c, Response("upvote", "error", req[c].user, req[c].post))
            /\ UNCHANGED <<dbvars, session, deleted>>
       ELSE /\ post_upvotes' = EdgeAfterToggle(post_upvotes, req[c].user,
                                               req[c].post, req[c].was_liked)
            /\ Goto(c, "count", req[c])
            /\ UNCHANGED <<users, posts, tags, post_tags, bookmark,
                           followers_assoc, comments, notifications, session, deleted>>

\* routes.py:248  count = post.liked_by.count(); the expired post is reloaded first
UpvoteCount(c) ==
    /\ pc[c] = "count"
    /\ IF req[c].post \notin DOMAIN posts
       THEN Finish(c, Response("upvote", "error", req[c].user, req[c].post))
       ELSE Goto(c, "write", [req[c] EXCEPT !.count = liked_by_count(req[c].post)])
    /\ UNCHANGED <<dbvars, session, deleted>>

\* A write of the count into the column of every post.
UpvotesWrittenAll(tbl, p, count) ==
    [q \in DOMAIN tbl |-> [tbl[q] EXCEPT !.upvotes = count]]

\* routes.py:251  post.upvotes = count
UpvotesWritten(tbl, p, count) == [tbl EXCEPT ![p].upvotes = count]

\* routes.py:251-252  the write of the legacy column and the second commit
UpvoteWrite(c) ==
    /\ pc[c] = "write"
    /\ IF req[c].post \notin DOMAIN posts
       THEN /\ Finish(c, Response("upvote", "error", req[c].user, req[c].post))
            /\ UNCHANGED <<dbvars, session, deleted>>
       ELSE /\ posts' = UpvotesWritten(posts, req[c].post, req[c].count)
            /\ Goto(c, "return", req[c])
            /\ UNCHANGED <<users, tags, post_tags, post_upvotes, bookmark,
                           followers_assoc, comments, notifications, session, deleted>>

\* routes.py:254  the JSON returned: the count taken and has_liked asked again
UpvoteResult(c) ==
    [Response("upvote", "ok", req[c].user, req[c].post) EXCEPT !.count = req[c].count,
                                     !.flag = has_liked(req[c].user, req[c].post)]

\* routes.py:254  return
UpvoteReturn(c) ==
    /\ pc[c] = "return"
    /\ IF req[c].post \notin DOMAIN posts
       THEN Finish(c, Response("upvote", "error", req[c].user, req[c].post))
       ELSE Finish(c, UpvoteResult(c))
    /\ UNCHANGED <<dbvars, session, deleted>>

-----------------------------------------------------------------------------
(* Feed composer: the rows each query of index and post_detail selects.    *)

LowerCh(ch) == IF ch = "T" THEN "t" ELSE IF ch = "C" THEN "c" ELSE ch

\* SQL LIKE on lower-cased text: % matches any run of characters, _ any one
RECURSIVE LikeMatch(_, _)
LikeMatch(pattern, text) ==
    IF pattern = <<>> THEN text = <<>>
    ELSE IF Head(pattern) = "%"
    THEN LikeMatch(Tail(pattern), text)
         \/ (text # <<>> /\ LikeMatch(pattern, Tail(text)))
    ELSE /\ text # <<>>
         /\ (Head(pattern) = "_" \/ LowerCh(Head(pattern)) = LowerCh(Head(text)))
         /\ LikeMatch(Tail(pattern), Tail(text))

\* routes.py:54  column.ilike(f'%{search_query}%')
ilike(text, search_query) == LikeMatch(<<"%">> \o search_query \o <<"%">>, text)

\* routes.py:53-56  the search feed
SearchRows(search_query) ==
    {p \in DOMAIN posts : \/ ilike(posts[p].title, search_query)
                          \/ ilike(posts[p].content, search_query)}

\* routes.py:58  the tag feed
TagRows(tag_query) ==
    {p \in DOMAIN posts :
        \E t \in DOMAIN tags : <<p, t>> \in post_tags /\ tags[t] = tag_query}

\* routes.py:69-71  the following feed
FollowingRows(viewer) ==
    {p \in DOMAIN posts : <<viewer, posts[p].author_id>> \in followers_assoc}

\* routes.py:74  the discover feed
DiscoverRows == DOMAIN posts

\* routes.py:176-179  the posts that share a tag with the post shown
SameTagRows(post_id) ==
    {p \in DOMAIN posts \ {post_id} :
        \E t \in DOMAIN tags : <<p, t>> \in post_tags /\ <<post_id, t>> \in post_tags}

\* routes.py:172-185  the posts post_detail can list as related: those sharing a
\* tag, and, when they are fewer than three, the other posts
RelatedRows(post_id) ==
    IF Cardinality(SameTagRows(post_id)) < 3
    THEN DOMAIN posts \ {post_id}
    ELSE SameTagRows(post_id)

\* The rows of a query that joins post with another table: <<post id, key of the
\* joined row>>; a query on post alone has the key None.
SearchJoin(search_query) == {<<p, None>> : p \in SearchRows(search_query)}

\* routes.py:58, 61  Post.query.join(Post.tags).filter(Tag.name == tag_query)
TagJoin(tag_query) ==
    {<<e[1], e[2]>> : e \in {e \in post_tags :
        e[1] \in DOMAIN posts /\ e[2] \in DOMAIN tags /\ tags[e[2]] = tag_query}}

\* A following feed that leaves out the filter on the follower.
FollowingJoinUnfiltered(viewer) ==
    {r \in (DOMAIN posts) \X followers_assoc : r[2][2] = posts[r[1]].author_id}

\* routes.py:69-70  join(followers_assoc, followed_id == Post.author_id)
\*                   .filter(followers_assoc.follower_id == current_user.id)
FollowingJoin(viewer) ==
    {r \in (DOMAIN posts) \X followers_assoc :
        r[2][2] = posts[r[1]].author_id /\ r[2][1] = viewer}

\* routes.py:74  Post.query
DiscoverJoin == {<<p, None>> : p \in DiscoverRows}

\* The ways to put the rows J in a sequence.
Arrangements(J) ==
    {f \in [1..Cardinality(J) -> J] : \A i, j \in 1..Cardinality(J) : f[i] = f[j] => i = j}

\* order_by(Post.date_posted.desc()): the sort has no second key, so rows with
\* equal date_posted come in any order.
OrderByDateDesc(J) ==
    {f \in Arrangements(J) :
        \A i, j \in 1..Cardinality(J) :
            i < j => posts[f[i][1]].date_posted >= posts[f[j][1]].date_posted}

\* The posts of the rows, in their order.
PostIds(f) == [i \in 1..Len(f) |-> f[i][1]]

\* routes.py:52-74  which query index runs: search before tag, tag before
\* topic, topic before the feed type
IndexMode(feed_type, search_query, tag_query, topic_query) ==
    IF search_query # <<>> THEN "index_search"
    ELSE IF tag_query # <<>> THEN "index_tag"
    ELSE IF topic_query # <<>> THEN "index_topic"
    ELSE IF feed_type = "following" THEN "index_following"
    ELSE "index_discover"

\* routes.py:52-74  the rows of that query
IndexJoin(c, mode, search_query, tag_query, topic_query) ==
    IF mode = "index_search" THEN SearchJoin(search_query)
    ELSE IF mode = "index_tag" THEN TagJoin(tag_query)
    ELSE IF mode = "index_topic" THEN TagJoin(topic_query)
    ELSE IF mode = "index_following" THEN FollowingJoin(current_user(c))
    ELSE DiscoverJoin

\* routes.py:45  index; arg is the text searched or the tag name asked for
Index(c, feed_type, search_query, tag_query, topic_query) ==
    LET mode == IndexMode(feed_type, search_query, tag_query, topic_query)
        arg == IF mode = "index_search" THEN search_query
               ELSE IF mode = "index_tag" THEN tag_query
               ELSE topic_query
    IN  /\ IF mode = "index_following" /\ session[c] = None
           THEN Atomic(c, Response(mode, "unauthenticated", session[c], arg))
           ELSE \E f \in OrderByDateDesc(IndexJoin(c, mode, search_query, tag_query,
                                                   topic_query)) :
                    Atomic(c, [Response(mode, "ok", session[c], arg)
                                  EXCEPT !.rows = PostIds(f)])
        /\ UNCHANGED <<dbvars, session, deleted>>

\* routes.py:179, 181-182  the number of related posts shown
RelatedLimit == 3

\* .limit(n)
FirstN(f, n) == SubSeq(f, 1, IF Len(f) < n THEN Len(f) ELSE n)

\* routes.py:176-179  the posts sharing a tag, distinct, newest first, three at most
RelatedFirst(post_id) ==
    {FirstN(PostIds(f), RelatedLimit) :
        f \in OrderByDateDesc({<<p, None>> : p \in SameTagRows(post_id)})}

\* A list of the ids to leave out that forgets the post shown.
RelatedExcludeFound(related, post_id) == {related[i] : i \in 1..Len(related)}

\* routes.py:183  exclude_ids
RelatedExclude(related, post_id) == {related[i] : i \in 1..Len(related)} \cup {post_id}

\* routes.py:181-184  the newest other posts that fill the list up
RelatedMore(related, post_id) ==
    IF Len(related) < RelatedLimit
    THEN {FirstN(PostIds(f), RelatedLimit - Len(related)) :
            f \in OrderByDateDesc({<<p, None>> :
                    p \in DOMAIN posts \ RelatedExclude(related, post_id)})}
    ELSE {<<>>}

\* routes.py:172-185  related_posts
RelatedPosts(post_id) ==
    UNION {{r \o m : m \in RelatedMore(r, post_id)} : r \in RelatedFirst(post_id)}

\* routes.py:151  post_detail (GET)
PostDetailGet(c, post_id) ==
    /\ IF post_id \notin DOMAIN posts
       THEN Atomic(c, Response("post_detail", "not_found", session[c], post_id))
       ELSE \E rows \in RelatedPosts(post_id) :
                Atomic(c, [Response("post_detail", "ok", session[c], post_id)
                              EXCEPT !.rows = rows])
    /\ UNCHANGED <<dbvars, session, deleted>>

-----------------------------------------------------------------------------
(* The inputs the requests are drawn from.                                 *)

Usernames == {"alice", "bob", "carol"}
Emails == {"a@uni.edu", "b@uni.edu", "c@uni.edu"}
Passwords == {"pw", "bad"}

\* The ids a request can name: those of the rows that can exist, and one more.
UserIdArgs == 1..(MaxUsers + 1)
PostIdArgs == 1..(MaxPosts + 1)

\* One request at a time, from one browser.
SeqClient == "c1"

(* The relationship graph: register, login, logout, follow, unfollow.      *)
NextFollow ==
    \/ \E u \in Usernames, e \in Emails : Register(SeqClient, u, e, "pw")
    \/ \E u \in Usernames, p \in Passwords : Login(SeqClient, u, p)
    \/ Logout(SeqClient)
    \/ \E v \in UserIdArgs : Follow(SeqClient, v)
    \/ \E v \in UserIdArgs : Unfollow(SeqClient, v)

SpecFollow == Init /\ [][NextFollow]_vars

(* Likes, one request at a time: register, login, new_post, upvote_post,   *)
(* delete_post.                                                            *)
AccountSeq ==
    <<(<<"alice", "a@uni.edu">>), (<<"bob", "b@uni.edu">>), (<<"carol", "c@uni.edu">>)>>

Accounts == {AccountSeq[1], AccountSeq[2]}

NextLike ==
    \/ \E a \in Accounts : Register(SeqClient, a[1], a[2], "pw")
    \/ \E a \in Accounts : Login(SeqClient, a[1], "pw")
    \/ NewPost(SeqClient, <<"t">>, <<"c">>, <<>>, NoFile)
    \/ \E p \in PostIdArgs : UpvoteBegin(SeqClient, p)
    \/ UpvoteCommit(SeqClient)
    \/ UpvoteCount(SeqClient)
    \/ UpvoteWrite(SeqClient)
    \/ UpvoteReturn(SeqClient)
    \/ \E p \in PostIdArgs : DeletePost(SeqClient, p)

SpecLike == Init /\ [][NextLike]_vars

(* Likes from two browsers at once, their steps interleaved.  The start is *)
(* the state after the accounts registered, each browser logged in as one  *)
(* of them, and alice and bob published a post each.                       *)
UserRow(a) ==
    [username |-> a[1], email |-> a[2],
     password_hash |-> generate_password_hash("pw")]

InitToggle ==
    /\ users = [i \in 1..MaxUsers |-> UserRow(AccountSeq[i])]
    /\ session \in [Clients -> 1..MaxUsers]
    /\ posts = [i \in {1, 2} |->
                  [title |-> <<"t">>, content |-> <<"c">>, thumbnail |-> NoFile,
                   date_posted |-> i, author_id |-> i, upvotes |-> 0]]
    /\ tags = <<>>
    /\ post_tags = {}
    /\ post_upvotes = {}
    /\ bookmark = {}
    /\ followers_assoc = {}
    /\ comments = <<>>
    /\ notifications = {}
    /\ pc = [c \in Clients |-> "idle"]
    /\ req = [c \in Clients |-> NoRequest]
    /\ resp = Response("none", "none", None, None)
    /\ hist = <<>>
    /\ deleted = {}

NextToggle ==
    \E c \in Clients :
        \/ \E p \in DOMAIN posts : UpvoteBegin(c, p)
        \/ UpvoteCommit(c)
        \/ UpvoteCount(c)
        \/ UpvoteWrite(c)
        \/ UpvoteReturn(c)

SpecToggle == InitToggle /\ [][NextToggle]_vars

(* Deleting posts that have tags, comments, likes and bookmarks, one       *)
(* request at a time, all from one account.                                *)
NextDelete ==
    \/ \E a \in {AccountSeq[1]} : Register(SeqClient, a[1], a[2], "pw")
    \/ \E a \in {AccountSeq[1]} : Login(SeqClient, a[1], "pw")
    \/ \E t \in {<<>>, <<"M">>} : NewPost(SeqClient, <<"t">>, <<"c">>, t, NoFile)
    \/ \E p \in PostIdArgs : AddComment(SeqClient, p, <<"c">>)
    \/ \E p \in PostIdArgs : UpvoteBegin(SeqClient, p)
    \/ UpvoteCommit(SeqClient)
    \/ UpvoteCount(SeqClient)
    \/ UpvoteWrite(SeqClient)
    \/ UpvoteReturn(SeqClient)
    \/ \E p \in PostIdArgs : ToggleBookmark(SeqClient, p)
    \/ \E p \in PostIdArgs : DeletePost(SeqClient, p)

SpecDelete == Init /\ [][NextDelete]_vars

-----------------------------------------------------------------------------
(* The claims.                                                             *)

AllIdle == \A c \in Clients : pc[c] = "idle"

CacheMatchesEdges == \A p \in DOMAIN posts : posts[p].upvotes = Cardinality(LikeEdges(p))

\* C1: in every committed state, each existing post's cached like count
\* (Post.upvotes) equals the number of post_upvotes rows that reference the post.
C1_CacheEqualsEdgeCount == CacheMatchesEdges

\* C2: when two browsers of the same user toggle the like of a post at the same
\* time, no call ends in a storage error, and once both have finished the cached
\* count of every post equals the number of its like edges.
C2_SamePairTogglesSerialize ==
    (\A c, d \in Clients : session[c] = session[d]) =>
        /\ ~(resp.op = "upvote" /\ resp.outcome = "error")
        /\ AllIdle => CacheMatchesEdges

\* C3: when different users toggle likes at the same time, once all calls have
\* finished the cached count of every post equals the number of its like edges.
C3_CountAfterConcurrentToggles ==
    ((\A c, d \in Clients : c # d => session[c] # session[d]) /\ AllIdle)
        => CacheMatchesEdges

\* Two calls of upvote_post by the same user on the same post, one right after
\* the other with no step of another request in between, both answered.
TwoTogglesInARow ==
    /\ Len(hist) = 2
    /\ hist[1].user = hist[2].user
    /\ hist[1].post = hist[2].post
    /\ hist[1].outcome = "ok"
    /\ hist[2].outcome = "ok"
    /\ pc[hist[2].client] = "idle"

\* C4: two consecutive toggles of the same like by the same user restore
\* hasLiked, the number of like edges of the post and its cached count to their
\* values before the first call.
C4_ToggleTwiceRestores ==
    TwoTogglesInARow =>
        /\ (<<hist[2].user, hist[2].post>> \in post_upvotes) = hist[1].pre_liked
        /\ Cardinality(LikeEdges(hist[2].post)) = hist[1].pre_count
        /\ posts[hist[2].post].upvotes = hist[1].pre_upvotes

\* A call of upvote_post that ran undisturbed has just been answered.
ToggleAnswered ==
    /\ hist # <<>>
    /\ hist[Len(hist)].outcome = "ok"
    /\ pc[hist[Len(hist)].client] = "idle"

\* C5: an undisturbed toggle returns liked = (the like edge exists after the
\* call) and the number of like edges of the post after the call; on a post
\* without likes the first call returns (true, 1) and the next one (false, 0).
C5_ToggleReturnsStateAfter ==
    ToggleAnswered =>
        LET r == hist[Len(hist)] IN
        /\ r.liked = (<<r.user, r.post>> \in post_upvotes)
        /\ r.count = Cardinality(LikeEdges(r.post))
        /\ r.pre_count = 0 => (r.liked /\ r.count = 1)
        /\ (TwoTogglesInARow /\ hist[1].pre_count = 0) => (~r.liked /\ r.count = 0)

\* C5's case: a post without likes was liked and then unliked by two calls in a row.
C5_Witness ==
    /\ TwoTogglesInARow
    /\ hist[1].pre_count = 0
    /\ hist[1].liked /\ hist[1].count = 1
    /\ ~hist[2].liked /\ hist[2].count = 0

\* A follow or unfollow request of a logged-in user that names an existing user.
Names(c, v) == session[c] # None /\ v \in DOMAIN users

\* C6: follow and unfollow are idempotent: a follow adds the one edge
\* (follower, followed) when it is missing and is answered without change when
\* it is there; an unfollow removes it when it is there and is answered without
\* change when it is missing.
C6_FollowUnfollowIdempotent ==
    [][\A c \in Clients, v \in UserIdArgs :
        /\ (Follow(c, v) /\ Names(c, v) /\ v # session[c]) =>
              /\ resp'.outcome = "ok"
              /\ followers_assoc' = followers_assoc \cup {<<session[c], v>>}
              /\ (<<session[c], v>> \in followers_assoc) => UNCHANGED followers_assoc
        /\ (Unfollow(c, v) /\ Names(c, v)) =>
              /\ resp'.outcome = "ok"
              /\ followers_assoc' = followers_assoc \ {<<session[c], v>>}
              /\ (<<session[c], v>> \notin followers_assoc) => UNCHANGED followers_assoc
      ]_vars

\* C6's case: a follow of a user already followed has been answered, and the
\* edge is there.
C6_Witness ==
    /\ resp.op = "follow" /\ resp.outcome = "ok" /\ resp.flag
    /\ <<resp.user, resp.arg>> \in followers_assoc

\* C7: the follow graph never holds an edge from a user to themselves, and a
\* follow of oneself leaves the graph as it was.
C7_NoSelfFollow ==
    /\ [](\A e \in followers_assoc : e[1] # e[2])
    /\ [][\A c \in Clients, v \in UserIdArgs :
            (Follow(c, v) /\ Names(c, v) /\ v = session[c]) => UNCHANGED followers_assoc
         ]_vars

\* C7's case: a user who follows somebody has asked to follow themselves.
C7_Witness ==
    /\ resp.op = "follow" /\ resp.outcome = "ok" /\ resp.user = resp.arg
    /\ \E e \in followers_assoc : e[1] = resp.user

\* C8: for every user v, followers_count(v) is the number of users with an edge
\* to v, following_count(v) the number of users v has an edge to, and
\* is_following(a, b) holds exactly when the edge (a, b) is in the graph.
C8_CountsReflectEdges ==
    \A v \in DOMAIN users :
        /\ followers_count(v) = Cardinality({a \in DOMAIN users : <<a, v>> \in followers_assoc})
        /\ following_count(v) = Cardinality({b \in DOMAIN users : <<v, b>> \in followers_assoc})
        /\ \A a \in DOMAIN users :
              /\ is_following(a, v) = (<<a, v>> \in followers_assoc)
              /\ is_followed_by(v, a) = (<<a, v>> \in followers_assoc)

\* C8's case: after a follow and an unfollow, a user has a follower and follows nobody.
C8_Witness ==
    /\ resp.op = "unfollow" /\ resp.outcome = "ok" /\ resp.flag
    /\ \E v \in DOMAIN users : followers_count(v) = 1 /\ following_count(v) = 0

\* The rows of the other tables that reference post p.
References(p) ==
    \/ \E k \in DOMAIN comments : comments[k].post_id = p
    \/ \E e \in post_tags : e[1] = p
    \/ \E e \in post_upvotes : e[2] = p
    \/ \E e \in bookmark : e[2] = p
    \/ \E n \in notifications : n.post_id = p

\* C9: a delete_post request of a post's author succeeds whatever references
\* the post: once it is answered the post is gone, and no comment, post_tags
\* row, like edge, bookmark edge or notification references its id.
C9_AuthorDeleteCascades ==
    (resp.op = "delete_post" /\ resp.user # None) =>
        /\ (resp.arg \in DOMAIN posts => posts[resp.arg].author_id # resp.user)
        /\ (resp.outcome = "ok" => resp.arg \notin DOMAIN posts /\ ~References(resp.arg))

\* The rows some feed or some related-posts list can return.
Listed ==
    DiscoverRows
        \cup UNION {FollowingRows(u) : u \in DOMAIN users}
        \cup UNION {TagRows(tags[t]) : t \in DOMAIN tags}
        \cup SearchRows(<<>>)
        \cup UNION {RelatedRows(q) : q \in DOMAIN posts}

\* C10: in every state after a successful delete_post of p, no feed and no
\* related-posts list returns p's id, and an upvote_post or toggle_bookmark
\* request on p's id is answered not found.
C10_DeletedPostStaysGone ==
    /\ \A p \in deleted : p \notin Listed
    /\ (resp.op \in {"upvote", "bookmark"} /\ resp.user # None /\ resp.arg \in deleted)
          => resp.outcome = "not_found"

-----------------------------------------------------------------------------
(* Editing and deleting posts, by their author, by another user and by a   *)
(* browser that is not logged in.                                          *)
Files == {NoFile, [stem |-> "a", ext |-> "PNG"], [stem |-> "a", ext |-> "exe"]}

NextEdit ==
    \/ \E a \in Accounts : Register(SeqClient, a[1], a[2], "pw")
    \/ \E a \in Accounts : Login(SeqClient, a[1], "pw")
    \/ Logout(SeqClient)
    \/ NewPost(SeqClient, <<"t">>, <<"c">>, <<"M">>, NoFile)
    \/ \E p \in PostIdArgs, f \in Files : EditPost(SeqClient, p, <<"x">>, <<"c">>, f)
    \/ \E p \in PostIdArgs : DeletePost(SeqClient, p)

SpecEdit == Init /\ [][NextEdit]_vars

\* An edit or delete request on an existing post by somebody who is not its author.
NotByAuthor(c, p) == p \in DOMAIN posts /\ posts[p].author_id # current_user(c)

\* C11: an edit_post or delete_post request on a post by anybody but its
\* author, a browser that is not logged in included, is refused (as forbidden,
\* or sent to the login page) and the post stays as it was.
C11_OnlyAuthorChanges ==
    (resp.op \in {"edit_post", "delete_post"}
        /\ resp.arg \in DOMAIN posts /\ posts[resp.arg].author_id # resp.user)
    => resp.outcome \in {"forbidden", "unauthenticated"}

\* The part of C11 about the stored data: a request that is not the author's
\* changes no table.
C11_StrangerChangesNothing ==
    [][\A p \in PostIdArgs :
          /\ (DeletePost(SeqClient, p) /\ NotByAuthor(SeqClient, p)) => UNCHANGED dbvars
          /\ \A f \in Files :
                (EditPost(SeqClient, p, <<"x">>, <<"c">>, f) /\ NotByAuthor(SeqClient, p))
                    => UNCHANGED dbvars
      ]_vars

-----------------------------------------------------------------------------
(* Publishing posts: titles and bodies with and without blanks, tag lists  *)
(* with repeated names, names in two cases and blanks, uploads.            *)
Titles == {<<>>, <<" ">>, <<"t">>, <<" ", "t", " ">>}
Contents == {<<" ", " ">>, <<"c">>}
TagInputs ==
    {<<>>, <<"M">>, <<"M", ",", "M">>, <<"M", ",", "m">>, <<" ", "m", ",", ",">>}

NextPost ==
    \/ Register(SeqClient, AccountSeq[1][1], AccountSeq[1][2], "pw")
    \/ Login(SeqClient, AccountSeq[1][1], "pw")
    \/ Logout(SeqClient)
    \/ \E t \in Titles, b \in Contents, raw \in TagInputs, f \in Files :
            NewPost(SeqClient, t, b, raw, f)

SpecPost == Init /\ [][NextPost]_vars

\* The names of the stored tags, and the names a tag list asks for.
TagNamesOf(tbl) == {tbl[t] : t \in DOMAIN tbl}

AskedNames(raw) == {ParseTagNames(raw)[i] : i \in 1..Len(ParseTagNames(raw))}

\* C12: no two Tag rows have the same name; a new_post that names an existing
\* tag associates that row and creates none; the list "M,M" yields one tag
\* associated once with the post, and "M,m" yields two tags.
C12_TagNamesUnique ==
    /\ [](\A t, u \in DOMAIN tags : tags[t] = tags[u] => t = u)
    /\ [][\A t \in Titles, b \in Contents, raw \in TagInputs, f \in Files :
            (NewPost(SeqClient, t, b, raw, f) /\ resp'.outcome = "ok") =>
                LET id == NextId(posts)
                    rows == {e \in post_tags' : e[1] = id}
                IN  /\ \A k \in DOMAIN tags : k \in DOMAIN tags' /\ tags'[k] = tags[k]
                    /\ TagNamesOf(tags') = TagNamesOf(tags) \cup AskedNames(raw)
                    /\ Cardinality(DOMAIN tags') =
                          Cardinality(DOMAIN tags)
                              + Cardinality(AskedNames(raw) \ TagNamesOf(tags))
                    /\ {tags'[e[2]] : e \in rows} = AskedNames(raw)
                    /\ Cardinality(rows) = Cardinality(AskedNames(raw))
                    /\ raw = <<"M", ",", "M">> => Cardinality(rows) = 1
                    /\ raw = <<"M", ",", "m">> =>
                          /\ Cardinality(rows) = 2
                          /\ \E k, l \in DOMAIN tags' :
                                k # l /\ tags'[k] = <<"M">> /\ tags'[l] = <<"m">>
         ]_vars

\* C12's case: two posts carry the one tag M, and a tag m exists beside it.
C12_Witness ==
    /\ resp.op = "new_post" /\ resp.outcome = "ok"
    /\ \E k, l \in DOMAIN tags : tags[k] = <<"M">> /\ tags[l] = <<"m">>
    /\ \E p, q \in DOMAIN posts, k \in DOMAIN tags :
          p # q /\ tags[k] = <<"M">> /\ <<p, k>> \in post_tags /\ <<q, k>> \in post_tags

\* Nothing but blanks.
AllBlank(text) == \A i \in 1..Len(text) : text[i] = " "

\* C20: a new_post whose title or content is empty once the blanks around it
\* are removed is answered with a validation error and changes no table.
C20_BlankPostRejected ==
    [][\A t \in Titles, b \in Contents, raw \in TagInputs, f \in Files :
          (NewPost(SeqClient, t, b, raw, f) /\ current_user(SeqClient) # None
              /\ (AllBlank(t) \/ AllBlank(b)))
          => (resp'.outcome = "validation_error" /\ UNCHANGED dbvars)
      ]_vars

\* C20's case: a post was refused for its blank title or content after an
\* earlier one was stored.
C20_Witness ==
    /\ resp.op = "new_post" /\ resp.outcome = "validation_error"
    /\ resp.user # None
    /\ DOMAIN posts # {}

-----------------------------------------------------------------------------
(* The committed states between the commits of a request: new_post and     *)
(* upvote_post commit twice, delete_post once.                             *)
NextCommits ==
    \/ Register(SeqClient, AccountSeq[1][1], AccountSeq[1][2], "pw")
    \/ Login(SeqClient, AccountSeq[1][1], "pw")
    \/ \E raw \in {<<>>, <<"M", ",", "m">>} :
            NewPostBegin(SeqClient, <<"t">>, <<"c">>, raw, NoFile)
    \/ NewPostTags(SeqClient)
    \/ \E p \in PostIdArgs : UpvoteBegin(SeqClient, p)
    \/ UpvoteCommit(SeqClient)
    \/ UpvoteCount(SeqClient)
    \/ UpvoteWrite(SeqClient)
    \/ UpvoteReturn(SeqClient)
    \/ \E p \in PostIdArgs : ToggleBookmark(SeqClient, p)
    \/ \E p \in PostIdArgs : DeletePost(SeqClient, p)

SpecCommits == Init /\ [][NextCommits]_vars

\* The tag names post p is associated with.
TagNamesOfPost(p) == {tags[e[2]] : e \in {e \in post_tags : e[1] = p}}

\* C13: no committed state has a stored post that lacks a tag association its
\* new_post request asked for, a like edge whose post's cached count has not
\* been recomputed, or a row that references a post that is gone.
C13_CommitsAreWhole ==
    /\ \A c \in Clients :
          (pc[c] = "tags" /\ req[c].post \in DOMAIN posts) =>
              \A i \in 1..Len(req[c].tag_names) :
                  req[c].tag_names[i] \in TagNamesOfPost(req[c].post)
    /\ \A p \in DOMAIN posts : posts[p].upvotes = liked_by_count(p)
    /\ \A p \in PostIdArgs : p \notin DOMAIN posts => ~References(p)

\* The first part of C13 alone: the post of a new_post request is never stored
\* without the tag associations asked for.
C13_PostStoredWithTags ==
    \A c \in Clients :
        (pc[c] = "tags" /\ req[c].post \in DOMAIN posts) =>
            \A i \in 1..Len(req[c].tag_names) :
                req[c].tag_names[i] \in TagNamesOfPost(req[c].post)

\* The last part of C13 alone: delete_post leaves no row behind.
C13_DeleteIsWhole == \A p \in PostIdArgs : p \notin DOMAIN posts => ~References(p)

-----------------------------------------------------------------------------
(* The feeds of index: two accounts that publish, follow and unfollow, and *)
(* read the discover, following, tag and search feeds.                     *)
Queries == {<<"t">>, <<"C">>, <<"x">>, <<"_">>, <<"%">>}
TagQueries == {<<"M">>, <<"m">>}

NextFeed ==
    \/ \E a \in Accounts : Register(SeqClient, a[1], a[2], "pw")
    \/ \E a \in Accounts : Login(SeqClient, a[1], "pw")
    \/ Logout(SeqClient)
    \/ \E v \in UserIdArgs : Follow(SeqClient, v)
    \/ \E v \in UserIdArgs : Unfollow(SeqClient, v)
    \/ \E raw \in {<<>>, <<"M">>} : NewPost(SeqClient, <<"t">>, <<"c">>, raw, NoFile)
    \/ \E ft \in {"discover", "following"} : Index(SeqClient, ft, <<>>, <<>>, <<>>)
    \/ \E q \in Queries : Index(SeqClient, "discover", q, <<>>, <<>>)
    \/ \E t \in TagQueries : Index(SeqClient, "following", <<>>, t, <<>>)
    \/ \E t \in TagQueries : Index(SeqClient, "discover", <<>>, <<>>, t)

SpecFeed == Init /\ [][NextFeed]_vars

\* The posts of a feed, and whether it shows each of them once.
Shown == {resp.rows[i] : i \in 1..Len(resp.rows)}

ShownOnce == \A i, j \in 1..Len(resp.rows) : resp.rows[i] = resp.rows[j] => i = j

\* C14: the following feed is refused when nobody is logged in; otherwise it
\* shows, once each, exactly the posts whose author the viewer follows, and so
\* never a post of the viewer or of a user the viewer does not follow.
C14_FollowingFeed ==
    resp.op = "index_following" =>
        IF resp.user = None
        THEN resp.outcome = "unauthenticated" /\ resp.rows = <<>>
        ELSE /\ resp.outcome = "ok"
             /\ ShownOnce
             /\ Shown = {p \in DOMAIN posts :
                            <<resp.user, posts[p].author_id>> \in followers_assoc}
             /\ \A p \in Shown : posts[p].author_id # resp.user

\* C14's case: the viewer reads a following feed that shows a post of the user
\* they follow and leaves out a post of their own.
C14_Witness ==
    /\ resp.op = "index_following" /\ resp.outcome = "ok"
    /\ Shown # {}
    /\ \E p \in DOMAIN posts : posts[p].author_id = resp.user

\* C15: every feed is sorted by date_posted descending, and posts with equal
\* date_posted come in descending id order.
C15_FeedOrder ==
    (resp.op \in {"index_search", "index_tag", "index_topic", "index_following",
                  "index_discover"} /\ resp.outcome = "ok") =>
        \A i, j \in 1..Len(resp.rows) :
            i < j =>
                \/ posts[resp.rows[i]].date_posted > posts[resp.rows[j]].date_posted
                \/ /\ posts[resp.rows[i]].date_posted = posts[resp.rows[j]].date_posted
                   /\ resp.rows[i] > resp.rows[j]

\* The part of C15 the sort key does give: date_posted never increases along a feed.
C15_DatesDescend ==
    (resp.op \in {"index_search", "index_tag", "index_topic", "index_following",
                  "index_discover"} /\ resp.outcome = "ok") =>
        \A i, j \in 1..Len(resp.rows) :
            i < j => posts[resp.rows[i]].date_posted >= posts[resp.rows[j]].date_posted

\* text contains query as a substring, letter case set aside.
Contains(text, query) ==
    \E i \in 0..(Len(text) - Len(query)) :
        \A k \in 1..Len(query) : LowerCh(text[i + k]) = LowerCh(query[k])

\* C18: the search feed shows exactly the posts whose title or content contains
\* the query as a literal substring, letter case set aside, also when the query
\* holds % or _; the tag feed shows exactly the posts associated with the tag
\* of that name, and nothing, without an error, when there is no such tag.
C18_SearchAndTagFeeds ==
    /\ resp.op = "index_search" =>
          /\ resp.outcome = "ok"
          /\ Shown = {p \in DOMAIN posts : \/ Contains(posts[p].title, resp.arg)
                                           \/ Contains(posts[p].content, resp.arg)}
    /\ resp.op = "index_tag" =>
          /\ resp.outcome = "ok"
          /\ Shown = {p \in DOMAIN posts : resp.arg \in TagNamesOfPost(p)}

\* The tag half of C18 alone.
C18_TagFeed ==
    resp.op = "index_tag" =>
        /\ resp.outcome = "ok"
        /\ Shown = {p \in DOMAIN posts : resp.arg \in TagNamesOfPost(p)}

\* The search half of C18 for queries without % and _.
C18_PlainSearch ==
    (resp.op = "index_search" /\ resp.arg \notin {<<"_">>, <<"%">>}) =>
        /\ resp.outcome = "ok"
        /\ Shown = {p \in DOMAIN posts : \/ Contains(posts[p].title, resp.arg)
                                         \/ Contains(posts[p].content, resp.arg)}

-----------------------------------------------------------------------------
(* The related posts of post_detail, read in a database of up to           *)
(* MaxRelated posts of one author: the first tag on any post, the second   *)
(* on the two oldest, and dates that follow the ids, as new_post stores    *)
(* them.                                                                   *)
InitRelated ==
    /\ users = [i \in {1} |-> UserRow(AccountSeq[1])]
    /\ session = [c \in Clients |-> None]
    /\ \E n \in 1..MaxRelated :
          /\ posts \in [1..n -> {[title |-> <<"t">>, content |-> <<"c">>,
                                  thumbnail |-> NoFile, date_posted |-> d,
                                  author_id |-> 1, upvotes |-> 0] : d \in 1..2}]
          /\ \A i, j \in 1..n : i < j => posts[i].date_posted <= posts[j].date_posted
          /\ post_tags \in SUBSET (((1..n) \X {1}) \cup (({1, 2} \cap (1..n)) \X {2}))
    /\ tags = <<(<<"M">>), (<<"m">>)>>
    /\ post_upvotes = {}
    /\ bookmark = {}
    /\ followers_assoc = {}
    /\ comments = <<>>
    /\ notifications = {}
    /\ pc = [c \in Clients |-> "idle"]
    /\ req = [c \in Clients |-> NoRequest]
    /\ resp = Response("none", "none", None, None)
    /\ hist = <<>>
    /\ deleted = {}

NextRelated == \E p \in 1..(MaxRelated + 1) : PostDetailGet(SeqClient, p)

SpecRelated == InitRelated /\ [][NextRelated]_vars

\* The posts other than p, and those among them that share a tag with p.
Others(p) == DOMAIN posts \ {p}

Sharing(p) ==
    {q \in Others(p) : \E t \in DOMAIN tags : <<p, t>> \in post_tags /\ <<q, t>> \in post_tags}

Least(a, b) == IF a < b THEN a ELSE b

\* C16: the related posts of p hold no post twice and never p; first come the
\* posts that share a tag with p, newest first, then, only when those are fewer
\* than the limit, the newest of the other posts; there are as many as the
\* limit, or as there are posts other than p when those are fewer.
C16_RelatedPosts ==
    (resp.op = "post_detail" /\ resp.outcome = "ok") =>
        LET p == resp.arg
            n == Len(resp.rows)
            k == Least(RelatedLimit, Cardinality(Sharing(p)))
            dateAt(i) == posts[resp.rows[i]].date_posted
        IN  /\ ShownOnce
            /\ p \notin Shown
            /\ Shown \subseteq DOMAIN posts
            /\ n = Least(RelatedLimit, Cardinality(Others(p)))
            /\ \A i \in 1..n : (i <= k) = (resp.rows[i] \in Sharing(p))
            /\ \A i, j \in 1..k : i < j => dateAt(i) >= dateAt(j)
            /\ \A i, j \in (k + 1)..n : i < j => dateAt(i) >= dateAt(j)
            /\ \A i \in 1..k : \A q \in Sharing(p) \ Shown :
                  posts[q].date_posted <= dateAt(i)
            /\ \A i \in (k + 1)..n : \A q \in Others(p) \ Shown :
                  posts[q].date_posted <= dateAt(i)

\* C16's case: of four other posts two share a tag with the post shown; they
\* come first and one of the remaining two fills the list.
C16_Witness ==
    /\ resp.op = "post_detail" /\ resp.outcome = "ok"
    /\ Cardinality(Others(resp.arg)) = 4
    /\ Cardinality(Sharing(resp.arg)) = 2
    /\ Len(resp.rows) = 3
    /\ resp.rows[3] \notin Sharing(resp.arg)

-----------------------------------------------------------------------------
(* Accounts: register, login, logout and the profile settings.             *)
NextAccount ==
    \/ \E u \in Usernames, e \in Emails : Register(SeqClient, u, e, "pw")
    \/ \E u \in Usernames : Login(SeqClient, u, "pw")
    \/ Logout(SeqClient)
    \/ \E u \in Usernames, e \in Emails, f \in {NoFile, [stem |-> "a", ext |-> "exe"]} :
            Settings(SeqClient, u, e, f)

SpecAccount == Init /\ [][NextAccount]_vars

\* C17: a register with a username or an email that a user has already is
\* answered with a conflict and stores no user; and no two users ever have
\* the same username or the same email, whatever is registered and whatever
\* the settings page changes.
C17_UsernamesAndEmailsUnique ==
    /\ [](\A u, v \in DOMAIN users :
            u # v => /\ users[u].username # users[v].username
                     /\ users[u].email # users[v].email)
    /\ [][\A n \in Usernames, e \in Emails :
            (Register(SeqClient, n, e, "pw")
                /\ \E u \in DOMAIN users : users[u].username = n \/ users[u].email = e)
            => (resp'.outcome = "conflict" /\ UNCHANGED dbvars)
         ]_vars

\* C17's case: a register is refused for a name or address that is taken,
\* after the one user there is changed both in the settings.
C17_Witness ==
    /\ resp.op = "register" /\ resp.outcome = "conflict"
    /\ DOMAIN users = {1}
    /\ users[1].username = "bob" /\ users[1].email = "c@uni.edu"

-----------------------------------------------------------------------------
(* Bookmarks: two accounts publish posts and bookmark them.                *)
NextBookmark ==
    \/ \E a \in Accounts : Register(SeqClient, a[1], a[2], "pw")
    \/ \E a \in Accounts : Login(SeqClient, a[1], "pw")
    \/ Logout(SeqClient)
    \/ NewPost(SeqClient, <<"t">>, <<"c">>, <<>>, NoFile)
    \/ \E p \in PostIdArgs : ToggleBookmark(SeqClient, p)

SpecBookmark == Init /\ [][NextBookmark]_vars

\* C19: toggle_bookmark on an existing post removes the bookmark edge of the
\* user and the post when it is there and inserts it otherwise, leaves every
\* other edge alone, and answers whether the edge is there afterwards, which
\* is what has_bookmarked then says; a second toggle in a row brings the
\* bookmarks back to what they were.
C19_BookmarkToggle ==
    /\ [](\A u \in DOMAIN users, p \in DOMAIN posts :
            BookmarkToggled(BookmarkToggled(bookmark, u, p), u, p) = bookmark)
    /\ [][\A p \in PostIdArgs :
            (ToggleBookmark(SeqClient, p) /\ current_user(SeqClient) # None
                /\ p \in DOMAIN posts) =>
                LET e == <<current_user(SeqClient), p>> IN
                /\ resp'.outcome = "ok"
                /\ e \in bookmark => bookmark' = bookmark \ {e}
                /\ e \notin bookmark => bookmark' = bookmark \cup {e}
                /\ resp'.flag = (e \in bookmark')
                /\ resp'.flag = has_bookmarked(current_user(SeqClient), p)'
         ]_vars

\* C19's case: a user has bookmarked a post and taken the bookmark back again,
\* while another bookmark stays.
C19_Witness ==
    /\ resp.op = "bookmark" /\ resp.outcome = "ok" /\ ~resp.flag
    /\ <<resp.user, resp.arg>> \notin bookmark
    /\ bookmark # {}

-----------------------------------------------------------------------------
(* Comments: two accounts, logged in or not, comment on posts.             *)
Bodies == {<<>>, <<" ">>, <<"c">>}

NextComment ==
    \/ \E a \in Accounts : Register(SeqClient, a[1], a[2], "pw")
    \/ \E a \in Accounts : Login(SeqClient, a[1], "pw")
    \/ Logout(SeqClient)
    \/ NewPost(SeqClient, <<"t">>, <<"c">>, <<>>, NoFile)
    \/ \E p \in PostIdArgs, b \in Bodies : AddComment(SeqClient, p, b)

SpecComment == Init /\ [][NextComment]_vars

\* C21: a comment with a body on an existing post is stored once, for that
\* post and for the user who sent it.
C21_CommentStoredForSender ==
    (resp.op = "comment" /\ resp.outcome = "ok" /\ resp.user # None) =>
        /\ DOMAIN comments # {}
        /\ comments[SetMax(DOMAIN comments)].post_id = resp.arg
        /\ comments[SetMax(DOMAIN comments)].user_id = resp.user

\* The first part of C21 without the author: a comment with a body on an
\* existing post adds one row, and that row names the post.
C21_OneCommentForPost ==
    [][\A p \in PostIdArgs, b \in Bodies :
          (AddComment(SeqClient, p, b) /\ p \in DOMAIN posts /\ ~AllBlank(b)) =>
              /\ resp'.outcome = "ok"
              /\ Cardinality(DOMAIN comments') = Cardinality(DOMAIN comments) + 1
              /\ \A k \in DOMAIN comments : k \in DOMAIN comments' /\ comments'[k] = comments[k]
              /\ \A k \in DOMAIN comments' \ DOMAIN comments : comments'[k].post_id = p
      ]_vars

\* The second part of C21: a comment without a body is answered with a
\* validation error, one on a missing post with not found, and neither stores
\* a comment or a user.
C21_RefusedCommentStoresNothing ==
    [][\A p \in PostIdArgs, b \in Bodies :
          /\ (AddComment(SeqClient, p, b) /\ p \notin DOMAIN posts) =>
                (resp'.outcome = "not_found" /\ UNCHANGED dbvars)
          /\ (AddComment(SeqClient, p, b) /\ p \in DOMAIN posts /\ AllBlank(b)) =>
                (resp'.outcome = "validation_error" /\ UNCHANGED dbvars)
      ]_vars

-----------------------------------------------------------------------------
(* The login gate: every request that writes, sent by a browser that is    *)
(* logged in, was never logged in, or has logged out.                      *)
MutatingRequest(c) ==
    \/ NewPost(c, <<"t">>, <<"c">>, <<>>, NoFile)
    \/ \E p \in PostIdArgs : EditPost(c, p, <<"x">>, <<"c">>, NoFile)
    \/ \E p \in PostIdArgs : DeletePost(c, p)
    \/ \E p \in PostIdArgs : AddComment(c, p, <<"c">>)
    \/ \E p \in PostIdArgs : UpvoteBegin(c, p)
    \/ \E p \in PostIdArgs : ToggleBookmark(c, p)
    \/ \E u \in UserIdArgs : Follow(c, u)
    \/ \E u \in UserIdArgs : Unfollow(c, u)
    \/ Settings(c, "carol", "c@uni.edu", NoFile)

\* The start is the state after alice and bob registered, alice published a
\* post, bob liked and bookmarked it and followed alice, and both logged out.
InitGate ==
    /\ users = [i \in 1..MaxUsers |-> UserRow(AccountSeq[i])]
    /\ session = [c \in Clients |-> None]
    /\ posts = [i \in {1} |->
                  [title |-> <<"t">>, content |-> <<"c">>, thumbnail |-> NoFile,
                   date_posted |-> 1, author_id |-> 1, upvotes |-> 1]]
    /\ tags = <<>>
    /\ post_tags = {}
    /\ post_upvotes = {<<2, 1>>}
    /\ bookmark = {<<2, 1>>}
    /\ followers_assoc = {<<2, 1>>}
    /\ comments = <<>>
    /\ notifications = {}
    /\ pc = [c \in Clients |-> "idle"]
    /\ req = [c \in Clients |-> NoRequest]
    /\ resp = Response("none", "none", None, None)
    /\ hist = <<>>
    /\ deleted = {}

\* A browser that logs in to publish, and sends every other request that
\* writes while it is logged out.
NextGate ==
    \/ Login(SeqClient, "alice", "pw")
    \/ Logout(SeqClient)
    \/ current_user(SeqClient) # None /\ NewPost(SeqClient, <<"t">>, <<"c">>, <<>>, NoFile)
    \/ session[SeqClient] = None /\ MutatingRequest(SeqClient)

SpecGate == InitGate /\ [][NextGate]_vars

\* C22: while nobody is logged in, every request that writes is turned away
\* and leaves users, posts, comments, tags and every edge as they were.
C22_WritesNeedLogin ==
    [][(session[SeqClient] = None /\ MutatingRequest(SeqClient)) =>
          (resp'.outcome # "ok" /\ UNCHANGED dbvars)
      ]_vars

\* C22 for every request but the comment form: without a login they are
\* answered with a redirect to the login page, a 401, a 404 or a 500, and
\* nothing is stored.
C22_GateOfTheOtherRequests ==
    [][(/\ session[SeqClient] = None
        /\ MutatingRequest(SeqClient)
        /\ resp'.op # "comment") =>
          /\ resp'.outcome \in {"unauthenticated", "not_found", "error"}
          /\ UNCHANGED dbvars
      ]_vars

\* A comment sent without a login, answered as stored.
C22_CommentWithoutLogin ==
    ~(resp.op = "comment" /\ resp.outcome = "ok" /\ resp.user = None)

-----------------------------------------------------------------------------
(* The edges: follows, likes and bookmarks of two accounts on two posts,   *)
(* one request at a time.                                                  *)
NextEdges ==
    \/ \E a \in Accounts : Login(SeqClient, a[1], "pw")
    \/ Logout(SeqClient)
    \/ \E u \in UserIdArgs : Follow(SeqClient, u)
    \/ \E u \in UserIdArgs : Unfollow(SeqClient, u)
    \/ \E p \in PostIdArgs : UpvoteBegin(SeqClient, p)
    \/ UpvoteCommit(SeqClient)
    \/ UpvoteCount(SeqClient)
    \/ UpvoteWrite(SeqClient)
    \/ UpvoteReturn(SeqClient)
    \/ \E p \in PostIdArgs : ToggleBookmark(SeqClient, p)

SpecEdges == InitToggle /\ [][NextEdges]_vars

\* The rows in which two states of an edge table differ.
Changed(before, after) == (before \ after) \cup (after \ before)

\* The posts are the same but for the upvotes column of post p.
SameButCount(p) ==
    /\ DOMAIN posts' = DOMAIN posts
    /\ \A q \in DOMAIN posts :
          /\ posts'[q] = [posts[q] EXCEPT !.upvotes = posts'[q].upvotes]
          /\ q # p => posts'[q] = posts[q]

\* C23: follow and unfollow change at most the follow edge from the user of
\* the session to the user named, never its reverse or another edge;
\* upvote_post changes at most the like edge of the user and the post and the
\* upvotes column of that post; toggle_bookmark changes at most the bookmark
\* edge of the user and the post; and none of them changes another table,
\* another post's column, a user, a post, a tag or a comment.
C23_EdgeRequestsFrame ==
    [][/\ \A v \in UserIdArgs :
            (Follow(SeqClient, v) \/ Unfollow(SeqClient, v)) =>
                /\ Changed(followers_assoc, followers_assoc')
                        \subseteq {<<current_user(SeqClient), v>>}
                /\ UNCHANGED <<users, posts, tags, post_tags, post_upvotes,
                               bookmark, comments, notifications>>
       /\ (\/ \E p \in PostIdArgs : UpvoteBegin(SeqClient, p)
           \/ UpvoteCommit(SeqClient) \/ UpvoteCount(SeqClient)
           \/ UpvoteWrite(SeqClient) \/ UpvoteReturn(SeqClient)) =>
                /\ pc[SeqClient] # "idle" =>
                      /\ Changed(post_upvotes, post_upvotes')
                            \subseteq {<<req[SeqClient].user, req[SeqClient].post>>}
                      /\ SameButCount(req[SeqClient].post)
                /\ pc[SeqClient] = "idle" => UNCHANGED <<post_upvotes, posts>>
                /\ UNCHANGED <<users, tags, post_tags, bookmark, followers_assoc,
                               comments, notifications>>
       /\ \A p \in PostIdArgs :
            ToggleBookmark(SeqClient, p) =>
                /\ Changed(bookmark, bookmark') \subseteq {<<current_user(SeqClient), p>>}
                /\ UNCHANGED <<users, posts, tags, post_tags, post_upvotes,
                               followers_assoc, comments, notifications>>
      ]_vars

\* A like of one post was answered while the other post has another count,
\* somebody else has a bookmark, and a follow edge is there without its reverse.
C23_Witness ==
    /\ resp.op = "upvote" /\ resp.outcome = "ok" /\ resp.flag
    /\ \E q \in DOMAIN posts :
          q # resp.arg /\ posts[q].upvotes # posts[resp.arg].upvotes
    /\ \E e \in bookmark : e[1] # resp.user
    /\ \E e \in followers_assoc : <<e[2], e[1]>> \notin followers_assoc

=============================================================================
